---- MODULE Spec2Model ----
(***************************************************************************)
(* Model of watcher/src/watcher.rs: the Watcher sync engine                *)
(* (lowest_next_block_to_sync, sync_blocks, parallel_fetch_blocks) and the *)
(* WatcherSyncThread background driver (new, stop, is_behind,              *)
(* thread_entrypoint).                                                     *)
(*                                                                         *)
(* WatcherDB, the fetcher and the ledger are collaborators whose code is   *)
(* not part of watcher.rs; their effects are modelled from their           *)
(* documented contracts and every outcome they can produce (success,       *)
(* error) is a nondeterministic choice.                                    *)
(***************************************************************************)
EXTENDS Integers, FiniteSets, Sequences, TLC

\* Highest block index the archives of a two-source deployment serve: a
\* fetch above the served range always fails.
MaxBlock == 3

\* Largest block count the local ledger reaches.
MaxLedger == 12

\* const MAX_BLOCKS_PER_SYNC_ITERATION: u32 = 10
MAX_BLOCKS_PER_SYNC_ITERATION == 10

\* The archive URLs a deployment may be configured with.
AllUrls == {"u1", "u2"}

\* Option<u64>: None is the empty set, Some(i) the singleton {i}.
None == {}
Some(i) == {i}
Unwrap(opt) == CHOOSE i \in opt : TRUE

BlockIndexes == 0..MaxBlock
OptionIndex == {None} \cup {Some(i) : i \in BlockIndexes}
\* The max_block_height arguments a direct caller passes.
OptionHeight == {None} \cup {Some(h) : h \in 0..(MaxBlock + 1)}

\* What one fetch unit can produce: an error, block data carrying a
\* signature, block data without one.
FetchOutcomes == {"err", "sig", "nosig"}

VARIABLES
    \* ---- Watcher and its WatcherDB
    sources,            \* the configured source URLs (fixed at construction)
    store_block_data,   \* Watcher.store_block_data
    last_synced_db,     \* WatcherDB: url -> Option<u64>, the per-source cursor
    archive_top,        \* the highest block index the archives serve
    \* ---- the running sync_blocks call
    sync_pc,            \* "idle" | "loop" | "fetching" | "reconciling" | "done"
    start,              \* argument start
    max_block_height,   \* argument max_block_height : Option<u64>
    last_synced,        \* local last_synced, after retain
    url_to_block_index, \* local url_to_block_index
    fetch_result,       \* per ParallelFetch thread: "running" or its outcome
    pending,            \* entries of url_to_block_data_result not yet iterated
    had_success,        \* local had_success
    sync_result,        \* "none" | "Ok(true)" | "Ok(false)" | "Err"
    store_writes,       \* history: the WatcherDB write calls <<call, url>> of
                        \* the latest sync_blocks iteration; a call that
                        \* wrote nothing is entered with its answer
    \* ---- a direct caller's lowest_next_block_to_sync()
    lowest_ret,         \* [tag: "none" | "Ok" | "Err", val]
    \* ---- WatcherSyncThread
    drv_pc,             \* position of thread_entrypoint: "unspawned" |
                        \* "check" | "read_lowest" | "read_ledger" |
                        \* "publish" | "decide" | "syncing" | "sleeping" |
                        \* "exited" | "panicked_lowest" | "panicked_ledger" |
                        \* "panicked_sync"
    lowest_next_block_to_sync, \* local of thread_entrypoint
    ledger_num_blocks,  \* local of thread_entrypoint
    ledger,             \* the ledger's actual block count
    currently_behind,   \* AtomicBool currently_behind
    stop_requested,     \* AtomicBool stop_requested
    join_handle,        \* TRUE iff join_handle is Some
    caller_pc,          \* position of the owner of the WatcherSyncThread:
                        \* "unspawned" | "running" | "joining" | "stopped" |
                        \* "stop_panicked" | "dropped"
    is_behind_ret,      \* [val, after_stop]: what the last is_behind() returned
    published,          \* history: the value of the loop's last store
    behind_writes,      \* history: stores to currently_behind this iteration
    sync_calls          \* history: sync_blocks calls made by this iteration

watcher_vars == <<sources, store_block_data, last_synced_db, archive_top>>
call_vars == <<sync_pc, start, max_block_height, last_synced,
               url_to_block_index, fetch_result, pending, had_success,
               sync_result, store_writes>>
iter_vars == <<last_synced, url_to_block_index, fetch_result, pending,
               had_success>>
driver_vars == <<drv_pc, lowest_next_block_to_sync, ledger_num_blocks, ledger,
                 currently_behind, stop_requested, join_handle, caller_pc,
                 is_behind_ret, published, behind_writes, sync_calls>>
vars == <<watcher_vars, call_vars, lowest_ret, driver_vars>>

EmptyMap == [u \in {} |-> None]

----------------------------------------------------------------------------
(* Pure helpers of Watcher *)

\* Variant of NextBlockOf: Some(index) => index (the + 1 forgotten).
NextBlockOfSameIndex(opt) == IF opt = None THEN 0 ELSE Unwrap(opt)

\* The closure of lowest_next_block_to_sync: None => 0, Some(index) => index + 1.
NextBlockOf(opt) == IF opt = None THEN 0 ELSE Unwrap(opt) + 1

\* Variant of MinOf: .max() in place of .min().
MinOfPicksMax(S) == CHOOSE m \in S : \A x \in S : m >= x

\* Iterator::min over the mapped values
MinOf(S) == CHOOSE m \in S : \A x \in S : m <= x

\* Variant of LowestNextBlockToSync: a cursor that is None is left out of
\* the minimum.
LowestNextSkipsNone(ls) ==
    LET nexts == {NextBlockOf(ls[u]) : u \in {v \in DOMAIN ls : ls[v] # None}}
    IN  IF nexts = {} THEN 0 ELSE MinOf(nexts)

\* last_synced.values().map(..).min().unwrap_or(0)
LowestNextBlockToSync(ls) ==
    LET nexts == {NextBlockOf(ls[u]) : u \in DOMAIN ls}
    IN  IF nexts = {} THEN 0 ELSE MinOf(nexts)

\* Variant of StillNeedsSync: block_index <= max_block_height.
StillNeedsSyncInclusive(opt, h) ==
    IF opt = None THEN TRUE ELSE Unwrap(opt) <= h

\* The retain predicate: opt.map(|i| i < max_block_height).unwrap_or(true)
StillNeedsSync(opt, h) == IF opt = None THEN TRUE ELSE Unwrap(opt) < h

\* Variant of Retain: the retain runs with max_block_height.unwrap_or(0)
\* instead of being skipped for None.
RetainDefaultZero(ls, max) ==
    LET h == IF max = None THEN 0 ELSE Unwrap(max)
        keep == {u \in DOMAIN ls : StillNeedsSync(ls[u], h)}
    IN  [u \in keep |-> ls[u]]

\* Variant of Retain: the retain is skipped whatever max_block_height is.
RetainKeepsAll(ls, max) == ls

\* last_synced after the optional retain
Retain(ls, max) ==
    IF max = None THEN ls
    ELSE LET keep == {u \in DOMAIN ls : StillNeedsSync(ls[u], Unwrap(max))}
         IN  [u \in keep |-> ls[u]]

\* Variant of TargetIndex: the cursor is ignored, every source targets start.
TargetIndexAlwaysStart(opt, st) == st

\* Variant of TargetIndex: Some(i) => i (the + 1 forgotten).
TargetIndexNoIncrement(opt, st) == IF opt = None THEN st ELSE Unwrap(opt)

\* opt_block_index.map(|i| i + 1).unwrap_or(start)
TargetIndex(opt, st) == IF opt = None THEN st ELSE Unwrap(opt) + 1

\* Variant of Min2: std::cmp::max.
Min2PicksMax(a, b) == IF a <= b THEN b ELSE a

\* std::cmp::min
Min2(a, b) == IF a <= b THEN a ELSE b

\* Variant of MaxBlocks: ledger_num_blocks in place of ledger_num_blocks - 1.
MaxBlocksNoMinusOne(num, lowest) ==
    Min2(num, lowest + MAX_BLOCKS_PER_SYNC_ITERATION)

\* max_blocks of thread_entrypoint
MaxBlocks(num, lowest) == Min2(num - 1, lowest + MAX_BLOCKS_PER_SYNC_ITERATION)

\* Variant of IsBehind: <= in place of <.
IsBehindInclusive(lowest, num) == lowest <= num

\* is_behind of thread_entrypoint
IsBehind(lowest, num) == lowest < num

----------------------------------------------------------------------------
(* WatcherDB, modelled from its contract *)

\* last_synced_blocks(): the cursor of every configured source
LastSyncedBlocks == last_synced_db

\* add_block_data(u, ..) answers Ok: the block data is written
AddBlockData(w, u) == w \cup {<<"block_data", u>>}

\* add_block_data(u, ..) answers AlreadyExists: the block data is present
\* already and nothing is written; the history keeps the answer
AddBlockDataExists(w, u) == w \cup {<<"block_data_exists", u>>}

\* add_block_signature / update_last_synced answers an error: nothing is
\* written; the history keeps the answer
CursorStepFails(w, u) == w \cup {<<"last_synced_err", u>>}

\* update_last_synced(u, i): the cursor of u becomes Some(i)
UpdateLastSynced(db, u, i) == [db EXCEPT ![u] = Some(i)]

\* add_block_signature(u, i, ..): records the signature; it advances the
\* cursor of u through UpdateLastSynced
AddBlockSignature(w, u) == w \cup {<<"signature", u>>}

----------------------------------------------------------------------------
Init ==
    /\ sources \in SUBSET AllUrls
    /\ store_block_data \in BOOLEAN
    /\ last_synced_db \in [sources -> OptionIndex]
    /\ archive_top = MaxBlock
    /\ store_writes = {}
    /\ sync_pc = "idle"
    /\ start = 0
    /\ max_block_height = None
    /\ last_synced = EmptyMap
    /\ url_to_block_index = EmptyMap
    /\ fetch_result = EmptyMap
    /\ pending = {}
    /\ had_success = FALSE
    /\ sync_result = "none"
    /\ lowest_ret = [tag |-> "none", val |-> 0]
    /\ drv_pc = "unspawned"
    /\ lowest_next_block_to_sync = 0
    /\ ledger_num_blocks = 0
    /\ ledger = 0
    /\ currently_behind = FALSE
    /\ stop_requested = FALSE
    /\ join_handle = FALSE
    /\ caller_pc = "unspawned"
    /\ is_behind_ret = [val |-> FALSE, after_stop |-> FALSE]
    /\ published = FALSE
    /\ behind_writes = 0
    /\ sync_calls = 0

----------------------------------------------------------------------------
(* sync_blocks *)

\* Entry of sync_blocks(st, max): the arguments are bound, the loop begins.
EnterSyncBlocks(st, max) ==
    /\ sync_pc' = "loop"
    /\ start' = st
    /\ max_block_height' = max
    /\ last_synced' = EmptyMap
    /\ url_to_block_index' = EmptyMap
    /\ fetch_result' = EmptyMap
    /\ pending' = {}
    /\ had_success' = FALSE
    /\ sync_result' = "none"
    /\ store_writes' = {}

\* return from sync_blocks: the locals of the iteration are dropped
Return(res) ==
    /\ sync_pc' = "done"
    /\ sync_result' = res
    /\ last_synced' = EmptyMap
    /\ url_to_block_index' = EmptyMap
    /\ fetch_result' = EmptyMap
    /\ pending' = {}
    /\ had_success' = FALSE

\* A direct caller invokes watcher.sync_blocks(st, max).
CallSyncBlocks(st, max) ==
    /\ drv_pc = "unspawned"
    /\ sync_pc \in {"idle", "done"}
    /\ EnterSyncBlocks(st, max)
    /\ lowest_ret' = [tag |-> "none", val |-> 0]
    /\ UNCHANGED <<watcher_vars, driver_vars>>

\* Top of the loop: read the cursors, retain, return Ok(true) when nothing
\* is left, else compute the targets and spawn one fetch thread per source.
SyncLoopTop ==
    /\ sync_pc = "loop"
    /\ LET ls == Retain(LastSyncedBlocks, max_block_height)
       IN  IF DOMAIN ls = {}
           THEN /\ Return("Ok(true)")
                /\ UNCHANGED store_writes
           ELSE /\ last_synced' = ls
                /\ url_to_block_index' =
                       [u \in DOMAIN ls |-> TargetIndex(ls[u], start)]
                /\ fetch_result' = [u \in DOMAIN ls |-> "running"]
                /\ sync_pc' = "fetching"
                /\ store_writes' = {}
                /\ UNCHANGED <<pending, had_success, sync_result>>
    /\ UNCHANGED <<watcher_vars, start, max_block_height, lowest_ret,
                   driver_vars>>

\* last_synced_blocks()? fails: the error is returned.
SyncLoopTopErr ==
    /\ sync_pc = "loop"
    /\ Return("Err")
    /\ UNCHANGED <<watcher_vars, start, max_block_height, store_writes,
                   lowest_ret, driver_vars>>

\* One ParallelFetch thread runs fetch_single_block and ends with outcome r.
FetchSingleBlock(u, r) ==
    /\ sync_pc = "fetching"
    /\ u \in DOMAIN fetch_result
    /\ fetch_result[u] = "running"
    /\ r # "err" => url_to_block_index[u] <= archive_top
    /\ fetch_result' = [fetch_result EXCEPT ![u] = r]
    /\ UNCHANGED <<watcher_vars, sync_pc, start, max_block_height,
                   last_synced, url_to_block_index, pending, had_success,
                   sync_result, store_writes, lowest_ret, driver_vars>>

\* Variant of JoinFetches: the result map is returned as soon as one
\* thread has ended.
JoinFetchesEarly ==
    /\ sync_pc = "fetching"
    /\ \E u \in DOMAIN fetch_result : fetch_result[u] # "running"
    /\ sync_pc' = "reconciling"
    /\ pending' = DOMAIN fetch_result
    /\ had_success' = FALSE
    /\ UNCHANGED <<watcher_vars, start, max_block_height, last_synced,
                   url_to_block_index, fetch_result, sync_result,
                   store_writes, lowest_ret, driver_vars>>

\* parallel_fetch_blocks joins every thread and returns the result map.
JoinFetches ==
    /\ sync_pc = "fetching"
    /\ \A u \in DOMAIN fetch_result : fetch_result[u] # "running"
    /\ sync_pc' = "reconciling"
    /\ pending' = DOMAIN fetch_result
    /\ had_success' = FALSE
    /\ UNCHANGED <<watcher_vars, start, max_block_height, last_synced,
                   url_to_block_index, fetch_result, sync_result,
                   store_writes, lowest_ret, driver_vars>>

\* The store writes of the second half of the Ok arm: add_block_signature
\* when the block data carries a signature, else update_last_synced.
WritesOfCursorStep(w, u, withSignature) ==
    (IF withSignature THEN AddBlockSignature(w, u) ELSE w)
        \cup {<<"last_synced", u>>}

\* The store writes of the Ok arm once add_block_data (when enabled)
\* answered Ok: the block data, then the signature or the cursor.
WritesOfOkArm(w, u, withSignature) ==
    LET w1 == IF store_block_data THEN AddBlockData(w, u) ELSE w
    IN  WritesOfCursorStep(w1, u, withSignature)

\* The Ok arm of the for loop with every store call succeeding.
ReconcileOk(u) ==
    /\ sync_pc = "reconciling"
    /\ u \in pending
    /\ fetch_result[u] # "err"
    /\ store_writes' = WritesOfOkArm(store_writes, u, fetch_result[u] = "sig")
    /\ last_synced_db' =
           UpdateLastSynced(last_synced_db, u, url_to_block_index[u])
    /\ had_success' = TRUE
    /\ pending' = pending \ {u}
    /\ UNCHANGED <<sources, store_block_data, archive_top, sync_pc, start,
                   max_block_height, last_synced, url_to_block_index,
                   fetch_result, sync_result, lowest_ret, driver_vars>>

\* Variant of ReconcileOkExists: AlreadyExists is returned to the caller
\* like every other store error.
ReconcileOkExistsFatal(u) ==
    /\ sync_pc = "reconciling"
    /\ u \in pending
    /\ fetch_result[u] # "err"
    /\ store_block_data
    /\ store_writes' = AddBlockDataExists(store_writes, u)
    /\ Return("Err")
    /\ UNCHANGED <<watcher_vars, start, max_block_height, lowest_ret,
                   driver_vars>>

\* The Ok arm where add_block_data answers AlreadyExists: the arm goes on
\* with the signature or cursor step as after Ok.
ReconcileOkExists(u) ==
    /\ sync_pc = "reconciling"
    /\ u \in pending
    /\ fetch_result[u] # "err"
    /\ store_block_data
    /\ store_writes' =
           WritesOfCursorStep(AddBlockDataExists(store_writes, u), u,
                              fetch_result[u] = "sig")
    /\ last_synced_db' =
           UpdateLastSynced(last_synced_db, u, url_to_block_index[u])
    /\ had_success' = TRUE
    /\ pending' = pending \ {u}
    /\ UNCHANGED <<sources, store_block_data, archive_top, sync_pc, start,
                   max_block_height, last_synced, url_to_block_index,
                   fetch_result, sync_result, lowest_ret, driver_vars>>

\* The Ok arm where add_block_data fails with an error other than
\* AlreadyExists: return Err(err.into()).
ReconcileDataErr(u) ==
    /\ sync_pc = "reconciling"
    /\ u \in pending
    /\ fetch_result[u] # "err"
    /\ store_block_data
    /\ Return("Err")
    /\ UNCHANGED <<watcher_vars, start, max_block_height, store_writes,
                   lowest_ret, driver_vars>>

\* The Ok arm where add_block_signature()? or update_last_synced()? fails,
\* after add_block_data (when enabled) answered Ok or AlreadyExists.
ReconcileCursorErr(u) ==
    /\ sync_pc = "reconciling"
    /\ u \in pending
    /\ fetch_result[u] # "err"
    /\ \/ store_writes' =
              CursorStepFails(IF store_block_data
                              THEN AddBlockData(store_writes, u)
                              ELSE store_writes, u)
       \/ /\ store_block_data
          /\ store_writes' =
                 CursorStepFails(AddBlockDataExists(store_writes, u), u)
    /\ Return("Err")
    /\ UNCHANGED <<watcher_vars, start, max_block_height, lowest_ret,
                   driver_vars>>

\* Variant of ReconcileFetchErr: the Err arm gives up on the whole call
\* with return Ok(false).
ReconcileFetchErrReturns(u) ==
    /\ sync_pc = "reconciling"
    /\ u \in pending
    /\ fetch_result[u] = "err"
    /\ Return("Ok(false)")
    /\ UNCHANGED <<watcher_vars, start, max_block_height, store_writes,
                   lowest_ret, driver_vars>>

\* Variant of ReconcileFetchErr: had_success = true is set in the Err arm
\* as well.
ReconcileFetchErrCounts(u) ==
    /\ sync_pc = "reconciling"
    /\ u \in pending
    /\ fetch_result[u] = "err"
    /\ pending' = pending \ {u}
    /\ had_success' = TRUE
    /\ UNCHANGED <<watcher_vars, sync_pc, start, max_block_height,
                   last_synced, url_to_block_index, fetch_result,
                   sync_result, store_writes, lowest_ret, driver_vars>>

\* The Err arm of the for loop: log only.
ReconcileFetchErr(u) ==
    /\ sync_pc = "reconciling"
    /\ u \in pending
    /\ fetch_result[u] = "err"
    /\ pending' = pending \ {u}
    /\ UNCHANGED <<watcher_vars, sync_pc, start, max_block_height,
                   last_synced, url_to_block_index, fetch_result, had_success,
                   sync_result, store_writes, lowest_ret, driver_vars>>

\* Variant of SyncLoopEnd: had_success is not looked at, the loop always
\* goes round.
SyncLoopEndAlwaysLoops ==
    /\ sync_pc = "reconciling"
    /\ pending = {}
    /\ sync_pc' = "loop"
    /\ UNCHANGED <<iter_vars, sync_result>>
    /\ UNCHANGED <<watcher_vars, start, max_block_height, store_writes,
                   lowest_ret, driver_vars>>

\* After the for loop: return Ok(false) when nothing succeeded, else loop.
SyncLoopEnd ==
    /\ sync_pc = "reconciling"
    /\ pending = {}
    /\ IF had_success
       THEN /\ sync_pc' = "loop"
            /\ UNCHANGED <<iter_vars, sync_result>>
       ELSE Return("Ok(false)")
    /\ UNCHANGED <<watcher_vars, start, max_block_height, store_writes,
                   lowest_ret, driver_vars>>

----------------------------------------------------------------------------
(* lowest_next_block_to_sync called directly *)

CallLowestNextBlockToSync ==
    /\ drv_pc = "unspawned"
    /\ sync_pc \in {"idle", "done"}
    /\ lowest_ret' = [tag |-> "Ok",
                      val |-> LowestNextBlockToSync(LastSyncedBlocks)]
    /\ UNCHANGED <<watcher_vars, call_vars, driver_vars>>

\* last_synced_blocks()? fails inside lowest_next_block_to_sync.
CallLowestNextBlockToSyncErr ==
    /\ drv_pc = "unspawned"
    /\ sync_pc \in {"idle", "done"}
    /\ lowest_ret' = [tag |-> "Err", val |-> 0]
    /\ UNCHANGED <<watcher_vars, call_vars, driver_vars>>

----------------------------------------------------------------------------
(* WatcherSyncThread *)

\* The thread died in a panic: of expect() on lowest_next_block_to_sync, of
\* unwrap() on num_blocks, or of expect() on sync_blocks.
DriverPanicked ==
    drv_pc \in {"panicked_lowest", "panicked_ledger", "panicked_sync"}

\* thread_entrypoint has ended, by break or by panic.
DriverTerminated == drv_pc = "exited" \/ DriverPanicked

\* WatcherSyncThread::new: the Watcher moves into the spawned thread; both
\* flags start false and the join handle is kept.
NewWatcherSyncThread(n) ==
    /\ drv_pc = "unspawned"
    /\ sync_pc \in {"idle", "done"}
    /\ drv_pc' = "check"
    /\ caller_pc' = "running"
    /\ ledger' = n
    /\ currently_behind' = FALSE
    /\ stop_requested' = FALSE
    /\ join_handle' = TRUE
    /\ published' = FALSE
    /\ sync_pc' = "idle"
    /\ sync_result' = "none"
    /\ start' = 0
    /\ max_block_height' = None
    /\ store_writes' = {}
    /\ lowest_ret' = [tag |-> "none", val |-> 0]
    /\ UNCHANGED <<watcher_vars, iter_vars, lowest_next_block_to_sync,
                   ledger_num_blocks, is_behind_ret, behind_writes,
                   sync_calls>>

\* Top of the thread loop: break when stop_requested is set.
DrvCheckStop ==
    /\ drv_pc = "check"
    /\ drv_pc' = IF stop_requested THEN "exited" ELSE "read_lowest"
    /\ behind_writes' = 0
    /\ sync_calls' = 0
    /\ UNCHANGED <<watcher_vars, call_vars, lowest_ret,
                   lowest_next_block_to_sync, ledger_num_blocks, ledger,
                   currently_behind, stop_requested, join_handle, caller_pc,
                   is_behind_ret, published>>

\* watcher.lowest_next_block_to_sync() returns Ok.
DrvReadLowest ==
    /\ drv_pc = "read_lowest"
    /\ lowest_next_block_to_sync' = LowestNextBlockToSync(LastSyncedBlocks)
    /\ drv_pc' = "read_ledger"
    /\ UNCHANGED <<watcher_vars, call_vars, lowest_ret, ledger_num_blocks,
                   ledger, currently_behind, stop_requested, join_handle,
                   caller_pc, is_behind_ret, published, behind_writes,
                   sync_calls>>

\* watcher.lowest_next_block_to_sync() returns Err: expect() panics.
DrvReadLowestErr ==
    /\ drv_pc = "read_lowest"
    /\ drv_pc' = "panicked_lowest"
    /\ UNCHANGED <<watcher_vars, call_vars, lowest_ret,
                   lowest_next_block_to_sync, ledger_num_blocks, ledger,
                   currently_behind, stop_requested, join_handle, caller_pc,
                   is_behind_ret, published, behind_writes, sync_calls>>

\* ledger.num_blocks() returns Ok.
DrvReadLedger ==
    /\ drv_pc = "read_ledger"
    /\ ledger_num_blocks' = ledger
    /\ drv_pc' = "publish"
    /\ UNCHANGED <<watcher_vars, call_vars, lowest_ret,
                   lowest_next_block_to_sync, ledger, currently_behind,
                   stop_requested, join_handle, caller_pc, is_behind_ret,
                   published, behind_writes, sync_calls>>

\* ledger.num_blocks() returns Err: unwrap() panics.
DrvReadLedgerErr ==
    /\ drv_pc = "read_ledger"
    /\ drv_pc' = "panicked_ledger"
    /\ UNCHANGED <<watcher_vars, call_vars, lowest_ret,
                   lowest_next_block_to_sync, ledger_num_blocks, ledger,
                   currently_behind, stop_requested, join_handle, caller_pc,
                   is_behind_ret, published, behind_writes, sync_calls>>

\* Variant of DrvPublish: !is_behind is stored.
DrvPublishNegated ==
    /\ drv_pc = "publish"
    /\ currently_behind' = ~IsBehind(lowest_next_block_to_sync, ledger_num_blocks)
    /\ published' = ~IsBehind(lowest_next_block_to_sync, ledger_num_blocks)
    /\ behind_writes' = behind_writes + 1
    /\ drv_pc' = "decide"
    /\ UNCHANGED <<watcher_vars, call_vars, lowest_ret,
                   lowest_next_block_to_sync, ledger_num_blocks, ledger,
                   stop_requested, join_handle, caller_pc, is_behind_ret,
                   sync_calls>>

\* currently_behind.store(is_behind, SeqCst)
DrvPublish ==
    /\ drv_pc = "publish"
    /\ currently_behind' = IsBehind(lowest_next_block_to_sync, ledger_num_blocks)
    /\ published' = IsBehind(lowest_next_block_to_sync, ledger_num_blocks)
    /\ behind_writes' = behind_writes + 1
    /\ drv_pc' = "decide"
    /\ UNCHANGED <<watcher_vars, call_vars, lowest_ret,
                   lowest_next_block_to_sync, ledger_num_blocks, ledger,
                   stop_requested, join_handle, caller_pc, is_behind_ret,
                   sync_calls>>

\* if is_behind: call sync_blocks(lowest_next_block_to_sync, Some(max_blocks)).
DrvSync ==
    /\ drv_pc = "decide"
    /\ IsBehind(lowest_next_block_to_sync, ledger_num_blocks)
    /\ EnterSyncBlocks(lowest_next_block_to_sync,
                       Some(MaxBlocks(ledger_num_blocks,
                                      lowest_next_block_to_sync)))
    /\ drv_pc' = "syncing"
    /\ sync_calls' = sync_calls + 1
    /\ UNCHANGED <<watcher_vars, lowest_ret, lowest_next_block_to_sync,
                   ledger_num_blocks, ledger, currently_behind,
                   stop_requested, join_handle, caller_pc, is_behind_ret,
                   published, behind_writes>>

\* sync_blocks returned to the thread: expect() panics on Err, else the
\* loop goes round.
DrvSyncReturn ==
    /\ drv_pc = "syncing"
    /\ sync_pc = "done"
    /\ drv_pc' = IF sync_result = "Err" THEN "panicked_sync" ELSE "check"
    /\ sync_pc' = "idle"
    /\ sync_result' = "none"
    /\ start' = 0
    /\ max_block_height' = None
    /\ store_writes' = {}
    /\ UNCHANGED <<watcher_vars, iter_vars, lowest_ret,
                   lowest_next_block_to_sync, ledger_num_blocks, ledger,
                   currently_behind, stop_requested, join_handle, caller_pc,
                   is_behind_ret, published, behind_writes, sync_calls>>

\* else if !stop_requested: sleep(poll_interval); otherwise straight back
\* to the top of the loop.
DrvIdle ==
    /\ drv_pc = "decide"
    /\ ~IsBehind(lowest_next_block_to_sync, ledger_num_blocks)
    /\ drv_pc' = IF stop_requested THEN "check" ELSE "sleeping"
    /\ UNCHANGED <<watcher_vars, call_vars, lowest_ret,
                   lowest_next_block_to_sync, ledger_num_blocks, ledger,
                   currently_behind, stop_requested, join_handle, caller_pc,
                   is_behind_ret, published, behind_writes, sync_calls>>

\* The sleep ends.
DrvWake ==
    /\ drv_pc = "sleeping"
    /\ drv_pc' = "check"
    /\ UNCHANGED <<watcher_vars, call_vars, lowest_ret,
                   lowest_next_block_to_sync, ledger_num_blocks, ledger,
                   currently_behind, stop_requested, join_handle, caller_pc,
                   is_behind_ret, published, behind_writes, sync_calls>>

\* The local ledger appends a block.
LedgerAppend ==
    /\ drv_pc # "unspawned"
    /\ ledger < MaxLedger
    /\ ledger' = ledger + 1
    /\ UNCHANGED <<watcher_vars, call_vars, lowest_ret, drv_pc,
                   lowest_next_block_to_sync, ledger_num_blocks,
                   currently_behind, stop_requested, join_handle, caller_pc,
                   is_behind_ret, published, behind_writes, sync_calls>>

\* stop(), first half: stop_requested.store(true), join_handle.take().
Stop ==
    /\ caller_pc = "running"
    /\ stop_requested' = TRUE
    /\ join_handle' = FALSE
    /\ caller_pc' = IF join_handle THEN "joining" ELSE "stopped"
    /\ UNCHANGED <<watcher_vars, call_vars, lowest_ret, drv_pc,
                   lowest_next_block_to_sync, ledger_num_blocks, ledger,
                   currently_behind, is_behind_ret, published, behind_writes,
                   sync_calls>>

\* Variant of JoinReturns: stop() does not wait for the thread.
JoinReturnsAtOnce == TRUE

\* The thread has ended, so join() may return.
JoinReturns == DriverTerminated

\* stop(), second half: thread.join() returns once the thread has ended;
\* expect() panics when the thread panicked.
StopJoin ==
    /\ caller_pc = "joining"
    /\ JoinReturns
    /\ caller_pc' = IF DriverPanicked THEN "stop_panicked" ELSE "stopped"
    /\ UNCHANGED <<watcher_vars, call_vars, lowest_ret, drv_pc,
                   lowest_next_block_to_sync, ledger_num_blocks, ledger,
                   currently_behind, stop_requested, join_handle,
                   is_behind_ret, published, behind_writes, sync_calls>>

\* Drop for WatcherSyncThread after a stop(): stop() again, the handle is
\* already taken, so it returns at once.
DropAfterStop ==
    /\ caller_pc \in {"stopped", "stop_panicked"}
    /\ stop_requested' = TRUE
    /\ join_handle' = FALSE
    /\ caller_pc' = "dropped"
    /\ UNCHANGED <<watcher_vars, call_vars, lowest_ret, drv_pc,
                   lowest_next_block_to_sync, ledger_num_blocks, ledger,
                   currently_behind, is_behind_ret, published, behind_writes,
                   sync_calls>>

\* is_behind(): currently_behind.load(SeqCst)
CallIsBehind ==
    /\ caller_pc \in {"running", "stopped"}
    /\ is_behind_ret' = [val |-> currently_behind,
                         after_stop |-> caller_pc = "stopped"]
    /\ UNCHANGED <<watcher_vars, call_vars, lowest_ret, drv_pc,
                   lowest_next_block_to_sync, ledger_num_blocks, ledger,
                   currently_behind, stop_requested, join_handle, caller_pc,
                   published, behind_writes, sync_calls>>

----------------------------------------------------------------------------
SyncEngineNext ==
    \/ SyncLoopTop
    \/ SyncLoopTopErr
    \/ \E u \in AllUrls, r \in FetchOutcomes : FetchSingleBlock(u, r)
    \/ JoinFetches
    \/ \E u \in AllUrls : ReconcileOk(u)
    \/ \E u \in AllUrls : ReconcileOkExists(u)
    \/ \E u \in AllUrls : ReconcileDataErr(u)
    \/ \E u \in AllUrls : ReconcileCursorErr(u)
    \/ \E u \in AllUrls : ReconcileFetchErr(u)
    \/ SyncLoopEnd

DirectNext ==
    \/ \E st \in BlockIndexes, max \in OptionHeight : CallSyncBlocks(st, max)
    \/ CallLowestNextBlockToSync
    \/ CallLowestNextBlockToSyncErr

DriverNext ==
    \/ \E n \in 0..MaxLedger : NewWatcherSyncThread(n)
    \/ DrvCheckStop
    \/ DrvReadLowest
    \/ DrvReadLowestErr
    \/ DrvReadLedger
    \/ DrvReadLedgerErr
    \/ DrvPublish
    \/ DrvSync
    \/ DrvSyncReturn
    \/ DrvIdle
    \/ DrvWake
    \/ LedgerAppend
    \/ Stop
    \/ StopJoin
    \/ DropAfterStop
    \/ CallIsBehind

Next == SyncEngineNext \/ DirectNext \/ DriverNext

Spec == Init /\ [][Next]_vars
----------------------------------------------------------------------------
(* The two-source scenario: both cursors None, sync_blocks(0, Some(h)) is   *)
(* running, every fetch of an index 0..2 succeeds with a signature, a      *)
(* fetch above may end any way, and the store reports no error.            *)

ScenarioHeights == {2, 3}

InitScenario ==
    /\ sources = AllUrls
    /\ store_block_data \in BOOLEAN
    /\ last_synced_db = [u \in AllUrls |-> None]
    /\ archive_top = MaxBlock
    /\ store_writes = {}
    /\ sync_pc = "loop"
    /\ start = 0
    /\ max_block_height \in {Some(h) : h \in ScenarioHeights}
    /\ last_synced = EmptyMap
    /\ url_to_block_index = EmptyMap
    /\ fetch_result = EmptyMap
    /\ pending = {}
    /\ had_success = FALSE
    /\ sync_result = "none"
    /\ lowest_ret = [tag |-> "none", val |-> 0]
    /\ drv_pc = "unspawned"
    /\ lowest_next_block_to_sync = 0
    /\ ledger_num_blocks = 0
    /\ ledger = 0
    /\ currently_behind = FALSE
    /\ stop_requested = FALSE
    /\ join_handle = FALSE
    /\ caller_pc = "unspawned"
    /\ is_behind_ret = [val |-> FALSE, after_stop |-> FALSE]
    /\ published = FALSE
    /\ behind_writes = 0
    /\ sync_calls = 0

\* A fetch thread of the scenario.
ScenarioFetch(u) ==
    \E r \in FetchOutcomes :
        /\ u \in DOMAIN url_to_block_index
        /\ url_to_block_index[u] \in 0..2 => r = "sig"
        /\ FetchSingleBlock(u, r)

\* The call that follows the sync_blocks of the scenario.
ScenarioLowestNext ==
    /\ sync_pc = "done"
    /\ lowest_ret.tag = "none"
    /\ CallLowestNextBlockToSync

NextScenario ==
    \/ SyncLoopTop
    \/ \E u \in AllUrls : ScenarioFetch(u)
    \/ JoinFetches
    \/ \E u \in AllUrls : ReconcileOk(u)
    \/ \E u \in AllUrls : ReconcileFetchErr(u)
    \/ SyncLoopEnd
    \/ ScenarioLowestNext

SpecScenario == InitScenario /\ [][NextScenario]_vars

----------------------------------------------------------------------------
(* One sync_blocks call over a store that was filled earlier: the cursors   *)
(* are anywhere from None to two above MaxBlock, the archives serve three  *)
(* blocks more than MaxBlock, and sync_blocks(start, max) has been entered. *)

PassCursors == {None} \cup {Some(i) : i \in 0..(MaxBlock + 2)}
PassHeights == {None} \cup {Some(h) : h \in 0..(MaxBlock + 3)}

InitPass ==
    /\ sources \in SUBSET AllUrls
    /\ store_block_data \in BOOLEAN
    /\ last_synced_db \in [sources -> PassCursors]
    /\ archive_top = MaxBlock + 3
    /\ store_writes = {}
    /\ sync_pc = "loop"
    /\ start \in BlockIndexes
    /\ max_block_height \in PassHeights
    /\ last_synced = EmptyMap
    /\ url_to_block_index = EmptyMap
    /\ fetch_result = EmptyMap
    /\ pending = {}
    /\ had_success = FALSE
    /\ sync_result = "none"
    /\ lowest_ret = [tag |-> "none", val |-> 0]
    /\ drv_pc = "unspawned"
    /\ lowest_next_block_to_sync = 0
    /\ ledger_num_blocks = 0
    /\ ledger = 0
    /\ currently_behind = FALSE
    /\ stop_requested = FALSE
    /\ join_handle = FALSE
    /\ caller_pc = "unspawned"
    /\ is_behind_ret = [val |-> FALSE, after_stop |-> FALSE]
    /\ published = FALSE
    /\ behind_writes = 0
    /\ sync_calls = 0

SpecPass == InitPass /\ [][SyncEngineNext]_vars

----------------------------------------------------------------------------
(* The same call made by the driver: the thread has read its two values,   *)
(* found itself behind, stored the flag and entered sync_blocks.           *)

InitDriverPass ==
    /\ sources \in SUBSET AllUrls
    /\ store_block_data \in BOOLEAN
    /\ last_synced_db \in [sources -> PassCursors]
    /\ archive_top = MaxBlock + 3
    /\ store_writes = {}
    /\ sync_pc = "loop"
    /\ lowest_next_block_to_sync = LowestNextBlockToSync(last_synced_db)
    /\ ledger_num_blocks \in 0..MaxLedger
    /\ IsBehind(lowest_next_block_to_sync, ledger_num_blocks)
    /\ ledger = ledger_num_blocks
    /\ start = lowest_next_block_to_sync
    /\ max_block_height =
           Some(MaxBlocks(ledger_num_blocks, lowest_next_block_to_sync))
    /\ last_synced = EmptyMap
    /\ url_to_block_index = EmptyMap
    /\ fetch_result = EmptyMap
    /\ pending = {}
    /\ had_success = FALSE
    /\ sync_result = "none"
    /\ lowest_ret = [tag |-> "none", val |-> 0]
    /\ drv_pc = "syncing"
    /\ currently_behind = TRUE
    /\ stop_requested = FALSE
    /\ join_handle = TRUE
    /\ caller_pc = "running"
    /\ is_behind_ret = [val |-> FALSE, after_stop |-> FALSE]
    /\ published = TRUE
    /\ behind_writes = 1
    /\ sync_calls = 1

\* The steps of one call, and the driver taking its result.
NextCall == SyncEngineNext \/ DrvSyncReturn

\* The thread that runs sync_blocks and the fetch threads it spawns are
\* scheduled until they end, and every fetch returns.
SpecCallFair ==
    /\ InitPass \/ InitDriverPass
    /\ [][NextCall]_vars
    /\ WF_vars(NextCall)

----------------------------------------------------------------------------
(* The driver on its own: WatcherSyncThread::new over a fresh store (every  *)
(* cursor None), nobody but the thread calls the Watcher. Either the usual *)
(* archives, or one source whose archive serves more than                  *)
(* MAX_BLOCKS_PER_SYNC_ITERATION blocks, so that one pass can run into the *)
(* limit of blocks per pass.                                               *)

DeepArchiveTop == MAX_BLOCKS_PER_SYNC_ITERATION + 1

InitDriver ==
    /\ \/ sources \in SUBSET AllUrls /\ archive_top = MaxBlock
       \/ sources = {"u1"} /\ archive_top = DeepArchiveTop
    /\ store_block_data \in BOOLEAN
    /\ last_synced_db = [u \in sources |-> None]
    /\ store_writes = {}
    /\ sync_pc = "idle"
    /\ start = 0
    /\ max_block_height = None
    /\ last_synced = EmptyMap
    /\ url_to_block_index = EmptyMap
    /\ fetch_result = EmptyMap
    /\ pending = {}
    /\ had_success = FALSE
    /\ sync_result = "none"
    /\ lowest_ret = [tag |-> "none", val |-> 0]
    /\ drv_pc = "check"
    /\ lowest_next_block_to_sync = 0
    /\ ledger_num_blocks = 0
    /\ ledger \in 0..MaxLedger
    /\ currently_behind = FALSE
    /\ stop_requested = FALSE
    /\ join_handle = TRUE
    /\ caller_pc = "running"
    /\ is_behind_ret = [val |-> FALSE, after_stop |-> FALSE]
    /\ published = FALSE
    /\ behind_writes = 0
    /\ sync_calls = 0

\* The thread, the sync_blocks it calls, the ledger, and the owner's stop().
NextDriver ==
    \/ SyncEngineNext
    \/ DrvCheckStop
    \/ DrvReadLowest
    \/ DrvReadLowestErr
    \/ DrvReadLedger
    \/ DrvReadLedgerErr
    \/ DrvPublish
    \/ DrvSync
    \/ DrvSyncReturn
    \/ DrvIdle
    \/ DrvWake
    \/ LedgerAppend
    \/ Stop
    \/ StopJoin

SpecDriver == InitDriver /\ [][NextDriver]_vars

----------------------------------------------------------------------------
(* The driver left to run: a fresh store, a ledger that stays at N blocks  *)
(* which the archives all serve, no store or ledger error, no stop().      *)

InitLive ==
    /\ sources \in SUBSET AllUrls
    /\ archive_top = MaxBlock
    /\ store_block_data \in BOOLEAN
    /\ last_synced_db = [u \in sources |-> None]
    /\ store_writes = {}
    /\ sync_pc = "idle"
    /\ start = 0
    /\ max_block_height = None
    /\ last_synced = EmptyMap
    /\ url_to_block_index = EmptyMap
    /\ fetch_result = EmptyMap
    /\ pending = {}
    /\ had_success = FALSE
    /\ sync_result = "none"
    /\ lowest_ret = [tag |-> "none", val |-> 0]
    /\ drv_pc = "check"
    /\ lowest_next_block_to_sync = 0
    /\ ledger_num_blocks = 0
    /\ ledger \in 1..(MaxBlock + 1)
    /\ currently_behind = FALSE
    /\ stop_requested = FALSE
    /\ join_handle = TRUE
    /\ caller_pc = "running"
    /\ is_behind_ret = [val |-> FALSE, after_stop |-> FALSE]
    /\ published = FALSE
    /\ behind_writes = 0
    /\ sync_calls = 0

\* The steps of the thread and of sync_blocks in which every store and
\* ledger call answers Ok or AlreadyExists; a fetch may still fail.
NextLive ==
    \/ SyncLoopTop
    \/ \E u \in AllUrls, r \in FetchOutcomes : FetchSingleBlock(u, r)
    \/ JoinFetches
    \/ \E u \in AllUrls : ReconcileOk(u)
    \/ \E u \in AllUrls : ReconcileOkExists(u)
    \/ \E u \in AllUrls : ReconcileFetchErr(u)
    \/ SyncLoopEnd
    \/ DrvCheckStop
    \/ DrvReadLowest
    \/ DrvReadLedger
    \/ DrvPublish
    \/ DrvSync
    \/ DrvSyncReturn
    \/ DrvIdle
    \/ DrvWake

\* The fetch of source u ends with block data.
FetchSucceeds(u) == \E r \in {"sig", "nosig"} : FetchSingleBlock(u, r)

\* The threads keep running, the sleep ends, and a fetch that is retried
\* again and again succeeds at some point.
LiveFairness ==
    /\ WF_vars(NextLive)
    /\ \A u \in AllUrls : SF_vars(FetchSucceeds(u))

SpecLive == InitLive /\ [][NextLive]_vars /\ LiveFairness

----------------------------------------------------------------------------
(* Claims *)

\* A sync_blocks call with a bound has returned a boolean.
ReturnedBoolWithBound ==
    /\ sync_pc = "done"
    /\ max_block_height # None
    /\ sync_result \in {"Ok(true)", "Ok(false)"}

\* Every source's cursor is Some(c) with c >= n.
AllCursorsAtLeast(n) ==
    \A u \in sources :
        /\ last_synced_db[u] # None
        /\ \A c \in last_synced_db[u] : c >= n

\* C1 as stated: when sync_blocks(start, Some(h)) returns, it returns true
\* if and only if every source's cursor is Some(c) with c >= h - 1.
C1_AsStated ==
    ReturnedBoolWithBound =>
        (sync_result = "Ok(true)"
            <=> AllCursorsAtLeast(Unwrap(max_block_height) - 1))

\* C1, amended: when sync_blocks(start, Some(h)) returns a boolean, it is
\* true if and only if every source's cursor is Some(c) with c >= h, and
\* false in every other case.
C1_TrueIffAllCursorsReachBound ==
    ReturnedBoolWithBound =>
        /\ sync_result = "Ok(true)"
               <=> AllCursorsAtLeast(Unwrap(max_block_height))
        /\ sync_result = "Ok(false)"
               <=> ~AllCursorsAtLeast(Unwrap(max_block_height))

\* C1 witness: a bounded call over two sources returned true after its own
\* iterations wrote cursors.
C1_Witness ==
    /\ ReturnedBoolWithBound
    /\ sync_result = "Ok(true)"
    /\ sources = AllUrls
    /\ max_block_height = Some(2)
    /\ store_writes # {}

\* C2 as stated: for every source set, the empty one included,
\* sync_blocks(start, None) never returns true.
C2_AsStated ==
    (sync_pc = "done" /\ max_block_height = None) => sync_result # "Ok(true)"

\* With no source an unbounded call never fetches and never writes.
EmptySetNeverFetches ==
    (sources = {} /\ max_block_height = None) =>
        /\ sync_pc \notin {"fetching", "reconciling"}
        /\ store_writes = {}

\* With no source the first step of an unbounded call is its return: true,
\* or the error of the store read.
EmptySetReturnsAtOnce ==
    (sources = {} /\ max_block_height = None /\ sync_pc = "loop"
     /\ sync_pc' # "loop") =>
        /\ sync_pc' = "done"
        /\ sync_result' \in {"Ok(true)", "Err"}

\* C2, amended: for every non-empty source set, sync_blocks(start, None)
\* never returns true; when it returns it returns Ok(false) or a store
\* error. With an empty source set it returns at once, without a fetch:
\* true, or the store's error when the read of the cursors fails.
C2_UnboundedNeverTrue ==
    /\ []((sync_pc = "done" /\ max_block_height = None /\ sources # {})
            => sync_result \in {"Ok(false)", "Err"})
    /\ []((sync_pc = "done" /\ max_block_height = None /\ sources = {})
            => sync_result \in {"Ok(true)", "Err"})
    /\ []EmptySetNeverFetches
    /\ [][EmptySetReturnsAtOnce]_vars

\* C2 witness: an unbounded call over two sources with synced cursors
\* returned false.
C2_Witness ==
    /\ sync_pc = "done"
    /\ max_block_height = None
    /\ sources = AllUrls
    /\ \A u \in sources : last_synced_db[u] # None
    /\ sync_result = "Ok(false)"

\* The outcome the scenario claims: both cursors 2, the call returned true,
\* and a following lowest_next_block_to_sync() returned 3.
ScenarioOutcome ==
    /\ \A u \in sources : last_synced_db[u] = Some(2)
    /\ sync_result = "Ok(true)"
    /\ lowest_ret.tag = "Ok" => lowest_ret.val = 3

\* C3 as stated: with 2 sources, both cursors None, sync_blocks(0, Some(3))
\* whose fetches of 0, 1, 2 succeed with a signature ends with both cursors
\* 2, returns true, and lowest_next_block_to_sync() then returns 3.
C3_AsStated ==
    (sync_pc = "done" /\ max_block_height = Some(3)) => ScenarioOutcome

\* C3, amended: the same scenario with the bound Some(2), the store
\* reporting no error, has that outcome.
C3_ScenarioWithBoundTwo ==
    (sync_pc = "done" /\ max_block_height = Some(2)) => ScenarioOutcome

\* C3 witness: the Some(2) scenario ran to its end and
\* lowest_next_block_to_sync() was called after it.
C3_Witness ==
    /\ sync_pc = "done"
    /\ max_block_height = Some(2)
    /\ sync_result = "Ok(true)"
    /\ lowest_ret.tag = "Ok"

\* The next index of a cursor, spelled out.
CursorNext(u) ==
    IF last_synced_db[u] = {} THEN 0
    ELSE (CHOOSE i \in last_synced_db[u] : TRUE) + 1

\* The value lowest_next_block_to_sync() returned is a lower bound of every
\* source's next index, which some source attains; 0 without sources.
LowestRetIsMinimum ==
    lowest_ret.tag = "Ok" =>
        /\ sources = {} => lowest_ret.val = 0
        /\ \A u \in sources : lowest_ret.val <= CursorNext(u)
        /\ sources # {} => \E u \in sources : lowest_ret.val = CursorNext(u)

\* A step in which lowest_next_block_to_sync() returns to a direct caller.
LowestNextReturns == lowest_ret' # lowest_ret /\ lowest_ret'.tag # "none"

\* C4: lowest_next_block_to_sync() returns the minimum over the sources of
\* (0 for None, i + 1 for Some(i)), 0 without sources, whatever start the
\* last sync_blocks call had, and it changes no cursor.
C4_LowestNextIsMinOfNext ==
    /\ []LowestRetIsMinimum
    /\ [][LowestNextReturns => last_synced_db' = last_synced_db]_vars

\* C4 witness: after a sync_blocks with start 2, one cursor None and one
\* Some, lowest_next_block_to_sync() returned 0.
C4_Witness ==
    /\ lowest_ret.tag = "Ok"
    /\ lowest_ret.val = 0
    /\ sync_pc = "done"
    /\ start = 2
    /\ \E u, v \in sources : last_synced_db[u] = None /\ last_synced_db[v] # None
\* The iteration's for loop is left in this step, by SyncLoopEnd or by an
\* early return.
IterationEnds == sync_pc = "reconciling" /\ sync_pc' # "reconciling"

\* After the step, every source whose fetch failed has the cursor the
\* iteration read, and every source whose fetch succeeded has its fetched
\* index as cursor.
FailedKeptSucceededAdvanced ==
    \A u \in DOMAIN fetch_result :
        IF fetch_result[u] = "err"
        THEN last_synced_db'[u] = last_synced[u]
        ELSE last_synced_db'[u] = Some(url_to_block_index[u])

\* No step of an iteration moves the cursor of a source whose fetch failed.
FailedSourceUntouched ==
    sync_pc = "reconciling" =>
        \A u \in DOMAIN fetch_result :
            fetch_result[u] = "err" => last_synced_db'[u] = last_synced_db[u]

\* C5 as stated: in every sync_blocks iteration a source whose fetch fails
\* keeps its cursor and every source whose fetch succeeded in that iteration
\* has its cursor advanced to its fetched index.
C5_AsStated == [][IterationEnds => FailedKeptSucceededAdvanced]_vars

\* C5, amended: a source whose fetch fails keeps its cursor in every
\* iteration; in every iteration that no store error aborts, every source
\* whose fetch succeeded has its cursor advanced to its fetched index.
C5_FetchFailureIsolated ==
    /\ [][FailedSourceUntouched]_vars
    /\ [][(IterationEnds /\ sync_result' # "Err")
            => FailedKeptSucceededAdvanced]_vars

\* C5 witness: an iteration over two sources is through its for loop, one
\* fetch failed and that cursor is as read, the other succeeded and that
\* cursor is the fetched index.
C5_Witness ==
    /\ sync_pc = "reconciling"
    /\ pending = {}
    /\ \E u, v \in DOMAIN fetch_result :
        /\ fetch_result[u] = "err"
        /\ last_synced_db[u] = last_synced[u]
        /\ fetch_result[v] # "err"
        /\ last_synced_db[v] = Some(url_to_block_index[v])
        /\ last_synced_db[v] # last_synced[v]

\* Every fetch of the running iteration has ended in an error.
AllFetchesFailed ==
    /\ sync_pc \in {"fetching", "reconciling"}
    /\ \A u \in DOMAIN fetch_result : fetch_result[u] = "err"

\* With every fetch failed, the cursors are those the iteration read and
\* the store took no write in the iteration.
AllFailedNothingWritten ==
    AllFetchesFailed =>
        /\ \A u \in DOMAIN last_synced : last_synced_db[u] = last_synced[u]
        /\ store_writes = {}

\* With every fetch failed, a step changes neither cursor nor store, and the
\* step that leaves the for loop returns Ok(false).
AllFailedReturnsFalse ==
    AllFetchesFailed =>
        /\ last_synced_db' = last_synced_db
        /\ store_writes' = store_writes
        /\ IterationEnds => (sync_pc' = "done" /\ sync_result' = "Ok(false)")

\* C6: an iteration in which the fetch of every remaining source fails
\* changes no cursor, writes nothing to the store, and sync_blocks returns
\* Ok(false).
C6_AllFailReturnsFalseUnchanged ==
    /\ []AllFailedNothingWritten
    /\ [][AllFailedReturnsFalse]_vars

\* C6 witness: both fetches of an iteration failed and its for loop is
\* through.
C6_Witness ==
    /\ AllFetchesFailed
    /\ sync_pc = "reconciling"
    /\ pending = {}
    /\ DOMAIN fetch_result = AllUrls

\* C7: the lowest next block to sync never decreases, across every step of
\* every sync_blocks pass and driver iteration.
C7_LowestNextNeverDecreases ==
    [][LowestNextBlockToSync(last_synced_db')
         >= LowestNextBlockToSync(last_synced_db)]_vars

\* C7 witness: during a driver pass the lowest next block has risen above
\* the value the driver read at the start of its iteration.
C7_Witness ==
    /\ drv_pc = "syncing"
    /\ sources = AllUrls
    /\ LowestNextBlockToSync(last_synced_db) > lowest_next_block_to_sync

\* stop() has returned (or Drop ran after it).
StopReturned == caller_pc \in {"stopped", "dropped"}

\* Once a stop() has returned the thread has ended (by break when the join
\* returned Ok, by panic when the join made stop() panic), and an
\* is_behind() made after stop() returned the value of the loop's last store.
StoppedMeansLoopExited ==
    /\ StopReturned => DriverTerminated
    /\ caller_pc = "stopped" => drv_pc = "exited"
    /\ caller_pc = "stop_panicked" => DriverPanicked
    /\ is_behind_ret.after_stop => is_behind_ret.val = published
    /\ caller_pc = "stopped" => ENABLED CallIsBehind

\* After stop() the thread reads no ledger, calls no sync_blocks and stores
\* no flag.
NoDriverActivityAfterStop ==
    (StopReturned \/ caller_pc = "stop_panicked") =>
        UNCHANGED <<drv_pc, lowest_next_block_to_sync, ledger_num_blocks,
                    currently_behind, published, call_vars, last_synced_db>>

\* C8: stop() returns only after the background loop has exited, after
\* which the driver does nothing more, and is_behind() after stop() returns
\* the last published value without blocking.
C8_StopJoinsTheLoop ==
    /\ []StoppedMeansLoopExited
    /\ [][NoDriverActivityAfterStop]_vars

\* C8 witness: is_behind() was called after stop() returned and gave true,
\* the loop having published it before it exited.
C8_Witness ==
    /\ caller_pc = "stopped"
    /\ drv_pc = "exited"
    /\ is_behind_ret.after_stop
    /\ is_behind_ret.val = TRUE

\* C9 as stated: once the driver loop has terminated fatally, is_behind()
\* returns true.
C9_AsStated == DriverPanicked => currently_behind = TRUE

\* C9, amended: once the driver loop has terminated fatally on an error of
\* sync_blocks, is_behind() returns true from then on; after a fatal error
\* of lowest_next_block_to_sync or num_blocks it keeps the value of the
\* loop's last store (false when there was none).
C9_StaleFlagAfterFatalStop ==
    /\ drv_pc = "panicked_sync" => currently_behind = TRUE
    /\ DriverPanicked => currently_behind = published
    /\ (is_behind_ret.after_stop /\ drv_pc = "panicked_sync")
           => is_behind_ret.val = TRUE

\* C9 witness: the thread died on a sync_blocks error and the flag is true.
C9_Witness ==
    /\ drv_pc = "panicked_sync"
    /\ currently_behind = TRUE
    /\ caller_pc = "running"
    /\ is_behind_ret.val = TRUE

\* The driver is in an iteration, past its stop check.
IterationPastStopCheck ==
    drv_pc \in {"read_lowest", "read_ledger", "publish", "decide", "syncing",
                "sleeping", "panicked_lowest", "panicked_ledger",
                "panicked_sync"}

\* The iteration is past the point where it stores the flag, or has died.
IterationPastPublish ==
    drv_pc \in {"decide", "syncing", "sleeping", "panicked_lowest",
                "panicked_ledger", "panicked_sync"}

\* C10 as stated: every driver iteration that passes the stop check writes
\* the flag exactly once.
C10_AsStated == IterationPastPublish => behind_writes = 1

\* Within an iteration whose two reads succeeded: no store before the
\* publish step and no sync_blocks call either; after it exactly one store,
\* of (lowest_next_block_to_sync < ledger_num_blocks) for the values the
\* iteration read.
OneStorePerIteration ==
    /\ drv_pc \in {"read_lowest", "read_ledger", "publish"}
           => (behind_writes = 0 /\ sync_pc = "idle")
    /\ drv_pc \in {"panicked_lowest", "panicked_ledger"} => behind_writes = 0
    /\ drv_pc \in {"decide", "syncing", "sleeping", "panicked_sync"}
           => /\ behind_writes = 1
              /\ currently_behind
                     = (lowest_next_block_to_sync < ledger_num_blocks)
    /\ drv_pc \in {"publish", "decide"}
           => /\ lowest_next_block_to_sync
                     = LowestNextBlockToSync(last_synced_db)
              /\ ledger_num_blocks <= ledger
    /\ (drv_pc # "unspawned" /\ sync_pc # "idle") => behind_writes = 1

\* The flag is false when the driver is constructed.
FlagStartsFalse ==
    (drv_pc = "unspawned" /\ drv_pc' # "unspawned") => currently_behind' = FALSE

\* Only the publish step of the loop changes the flag.
OnlyPublishWrites ==
    (currently_behind' # currently_behind \/ behind_writes' > behind_writes)
        => (drv_pc = "publish" /\ drv_pc' = "decide")

\* C10, amended: the flag is false at construction; every iteration that
\* passes the stop check and whose two reads succeed writes it exactly
\* once, to (lowest_next_block_to_sync < ledger block count) of that
\* iteration's values, before any sync_blocks call; an iteration that dies
\* on a read writes nothing; nothing else writes it.
C10_FlagWrittenOncePerIteration ==
    /\ []OneStorePerIteration
    /\ [][FlagStartsFalse]_vars
    /\ [][OnlyPublishWrites]_vars

\* C10 witness: an iteration has published true once and is inside its
\* sync_blocks call.
C10_Witness ==
    /\ drv_pc = "syncing"
    /\ sync_pc = "fetching"
    /\ behind_writes = 1
    /\ currently_behind = TRUE
----------------------------------------------------------------------------
\* The cursor of u is written by this step.
CursorWritten(u) == last_synced_db'[u] # last_synced_db[u]

\* While an iteration runs, a retained source whose cursor is Some(i) has
\* the target i + 1.
TargetFollowsCursor ==
    sync_pc \in {"fetching", "reconciling"} =>
        \A u \in DOMAIN last_synced :
            last_synced[u] # None =>
                url_to_block_index[u] = Unwrap(last_synced[u]) + 1

\* Every cursor write of this step goes from None to Some(0) or from
\* Some(i) to Some(i + 1).
CursorStepsByOne ==
    \A u \in sources :
        CursorWritten(u) =>
            last_synced_db'[u] =
                IF last_synced_db[u] = None THEN Some(0)
                ELSE Some(Unwrap(last_synced_db[u]) + 1)

\* C11 as stated: the indexes at or below a cursor were all fetched and
\* reconciled, none skipped, that is every cursor write adds the next index
\* to 0..=i: None becomes Some(0) and Some(i) becomes Some(i + 1).
C11_AsStated == [][CursorStepsByOne]_vars

\* C11: every cursor write records the index that was just fetched with
\* success for that source; that index is the cursor plus one when the
\* cursor was Some(i) and the start argument of the running call when it
\* was None, so the indexes from the first one recorded up to the cursor
\* are reconciled without a gap, and the next target is i + 1.
C11_ContiguousFromFirstStart ==
    /\ []TargetFollowsCursor
    /\ [][\A u \in sources :
             CursorWritten(u) =>
                 /\ sync_pc = "reconciling"
                 /\ u \in pending
                 /\ fetch_result[u] \in {"sig", "nosig"}
                 /\ last_synced_db'[u] = Some(url_to_block_index[u])
                 /\ last_synced_db'[u] =
                        IF last_synced_db[u] = None THEN Some(start)
                        ELSE Some(Unwrap(last_synced_db[u]) + 1)]_vars

\* A cursor that was None has just been written by a call whose start is
\* above 0, and another one was raised from Some(i) to Some(i + 1).
C11_Witness ==
    /\ sync_pc = "reconciling"
    /\ start > 0
    /\ \E u \in DOMAIN last_synced \ pending :
           /\ last_synced[u] = None
           /\ last_synced_db[u] = Some(start)
    /\ \E v \in DOMAIN last_synced \ pending :
           /\ last_synced[v] # None
           /\ last_synced_db[v] = Some(Unwrap(last_synced[v]) + 1)

----------------------------------------------------------------------------
\* The sources an iteration has to fetch for, read off the store: cursor
\* None, or below the bound, or any cursor when there is no bound.
SourcesToFetch ==
    {u \in sources :
        \/ last_synced_db[u] = None
        \/ max_block_height = None
        \/ Unwrap(last_synced_db[u]) < Unwrap(max_block_height)}

\* A fetch unit that has ended keeps its outcome until the iteration ends,
\* and no unit appears or disappears while the iteration runs.
UnitsRunOnce ==
    (sync_pc \in {"fetching", "reconciling"} /\
     sync_pc' \in {"fetching", "reconciling"}) =>
        /\ DOMAIN fetch_result' = DOMAIN fetch_result
        /\ \A u \in DOMAIN fetch_result :
               fetch_result[u] # "running" =>
                   fetch_result'[u] = fetch_result[u]

\* C12: while the fetches of an iteration run there is one fetch unit for
\* each source whose cursor is None or below max (every source when max is
\* None) and for no other source; its index is cursor + 1 for Some(cursor)
\* and start for None; a unit runs once.
C12_OneFetchPerRetainedSource ==
    /\ [](sync_pc = "fetching" =>
            /\ DOMAIN fetch_result = SourcesToFetch
            /\ DOMAIN url_to_block_index = SourcesToFetch
            /\ \A u \in SourcesToFetch :
                   url_to_block_index[u] =
                       IF last_synced_db[u] = None THEN start
                       ELSE Unwrap(last_synced_db[u]) + 1)
    /\ [][UnitsRunOnce]_vars

\* Cursors Some(5) and None: the pass targets 6 and start, while a third
\* kind of source, at or above the bound, would get no unit.
C12_Witness ==
    /\ sync_pc = "fetching"
    /\ start = 2
    /\ \E u, v \in sources :
           /\ last_synced_db[u] = Some(5)
           /\ last_synced_db[v] = None
           /\ url_to_block_index[u] = 6
           /\ url_to_block_index[v] = 2

----------------------------------------------------------------------------
\* What thread_entrypoint passes as max_block_height, written out.
BoundOfIteration ==
    IF ledger_num_blocks - 1
           <= lowest_next_block_to_sync + MAX_BLOCKS_PER_SYNC_ITERATION
    THEN ledger_num_blocks - 1
    ELSE lowest_next_block_to_sync + MAX_BLOCKS_PER_SYNC_ITERATION

\* The minimum of the next indexes over the cursors in the store, 0 when
\* there is no source.
LowestOverStore ==
    IF sources = {} THEN 0
    ELSE CHOOSE m \in {CursorNext(u) : u \in sources} :
             \A v \in sources : m <= CursorNext(v)

\* The two values of an iteration are read from the store and the ledger
\* and then left alone until the iteration ends.
ReadThisIteration ==
    /\ (drv_pc = "read_lowest" /\ drv_pc' = "read_ledger") =>
           lowest_next_block_to_sync' = LowestOverStore
    /\ (drv_pc = "read_ledger" /\ drv_pc' = "publish") =>
           ledger_num_blocks' = ledger
    /\ drv_pc \in {"publish", "decide", "syncing"} =>
           UNCHANGED <<lowest_next_block_to_sync, ledger_num_blocks>>

\* The branch taken at the end of an iteration: one call when behind, the
\* sleep or the next round without a call otherwise.
CallOnlyWhenBehind ==
    (drv_pc = "decide" /\ drv_pc' # "decide") =>
        IF lowest_next_block_to_sync < ledger_num_blocks
        THEN drv_pc' = "syncing" /\ sync_calls' = 1
        ELSE drv_pc' \in {"sleeping", "check"} /\ sync_calls' = 0

\* C13: an iteration of the driver that is behind calls sync_blocks once,
\* with start = lowest_next_block_to_sync and max_block_height =
\* Some(min(ledger_num_blocks - 1, lowest_next_block_to_sync + 10)), both
\* read in that iteration; an iteration that is not behind makes no call.
C13_OneBoundedCallWhenBehind ==
    /\ [](drv_pc = "syncing" =>
            /\ sync_calls = 1
            /\ lowest_next_block_to_sync < ledger_num_blocks
            /\ start = lowest_next_block_to_sync
            /\ max_block_height = Some(BoundOfIteration))
    /\ [](drv_pc \in {"read_lowest", "read_ledger", "publish", "decide",
                      "sleeping"} => sync_calls = 0)
    /\ [](drv_pc = "sleeping" =>
            ~(lowest_next_block_to_sync < ledger_num_blocks))
    /\ []((drv_pc = "check" /\ behind_writes = 1) =>
            sync_calls = IF published THEN 1 ELSE 0)
    /\ [](drv_pc = "panicked_sync" => sync_calls = 1)
    /\ [][ReadThisIteration /\ CallOnlyWhenBehind]_vars

\* The driver is in a call whose bound is lowest + 10, the ledger being
\* more than ten blocks ahead.
C13_Witness ==
    /\ drv_pc = "syncing"
    /\ ledger_num_blocks - 1
           > lowest_next_block_to_sync + MAX_BLOCKS_PER_SYNC_ITERATION
    /\ max_block_height =
           Some(lowest_next_block_to_sync + MAX_BLOCKS_PER_SYNC_ITERATION)
    /\ start = lowest_next_block_to_sync

----------------------------------------------------------------------------
\* add_block_data answered AlreadyExists for u in this step.
AlreadyExistsAnswered(u) ==
    /\ <<"block_data_exists", u>> \notin store_writes
    /\ <<"block_data_exists", u>> \in store_writes'

\* After AlreadyExists the arm goes on: the cursor of u is written and u
\* counts as progress, unless the signature or cursor call itself fails.
AlreadyExistsIsSuccess ==
    \A u \in sources :
        AlreadyExistsAnswered(u) =>
            \/ /\ sync_pc' = "reconciling"
               /\ had_success'
               /\ <<"last_synced", u>> \in store_writes'
               /\ (fetch_result[u] = "sig") =
                      (<<"signature", u>> \in store_writes')
               /\ last_synced_db'[u] = Some(url_to_block_index[u])
            \/ /\ <<"last_synced_err", u>> \in store_writes'
               /\ sync_result' = "Err"

\* A store error ends the call in the step it occurs in: the cursors stay,
\* the sources still pending are not reconciled, and no cursor moves once
\* the call has returned.
StoreErrorReturnsAtOnce ==
    /\ (sync_result # "Err" /\ sync_result' = "Err") =>
           /\ sync_pc' = "done"
           /\ last_synced_db' = last_synced_db
    /\ (\E u \in sources : <<"last_synced_err", u>> \in store_writes') =>
           sync_result' = "Err"
    /\ (sync_pc = "done" /\ sync_pc' = "done") =>
           last_synced_db' = last_synced_db

\* An error is returned from the for loop only by the arm of a source
\* whose fetch succeeded.
FetchErrorNeverReturned ==
    (sync_pc = "reconciling" /\ sync_result' = "Err") =>
        \E u \in pending : fetch_result[u] \in {"sig", "nosig"}

\* C14: AlreadyExists from add_block_data counts as success (the signature
\* or cursor step runs, the source is progress); every other store error
\* returns the error at once, the remaining sources unreconciled; a fetch
\* error alone never makes sync_blocks return an error.
C14_ErrorsOfTheOkArm ==
    [][AlreadyExistsIsSuccess /\ StoreErrorReturnsAtOnce
       /\ FetchErrorNeverReturned]_vars

\* One source got AlreadyExists and was advanced all the same, while the
\* fetch of the other one had failed.
C14_Witness ==
    /\ sync_pc = "reconciling"
    /\ had_success
    /\ \E u, v \in DOMAIN fetch_result :
           /\ <<"block_data_exists", u>> \in store_writes
           /\ <<"last_synced", u>> \in store_writes
           /\ last_synced_db[u] = Some(url_to_block_index[u])
           /\ fetch_result[v] = "err"
           /\ v \notin pending

----------------------------------------------------------------------------
\* A fetch unit starts in this step.
UnitStarts ==
    \E u \in DOMAIN fetch_result' :
        /\ fetch_result'[u] = "running"
        /\ u \in DOMAIN fetch_result => fetch_result[u] # "running"

\* The store is written, or a cursor moves, in this step.
StoreTouched ==
    \/ store_writes' \notin {store_writes, {}}
    \/ last_synced_db' # last_synced_db

\* The steps of an iteration keep the two stages apart, and a unit that
\* ends, with an error or not, changes the outcome of no other unit.
StagesKeptApart ==
    /\ StoreTouched =>
           /\ sync_pc = "reconciling"
           /\ \A u \in DOMAIN fetch_result : fetch_result[u] # "running"
    /\ UnitStarts => sync_pc = "loop" /\ pending = {}
    /\ (sync_pc = "reconciling" /\ sync_pc' = "loop") => pending = {}
    /\ sync_pc = "fetching" =>
           \A u, v \in DOMAIN fetch_result :
               (u # v /\ fetch_result'[u] # fetch_result[u]) =>
                   fetch_result'[v] = fetch_result[v]

\* C15: within an iteration no store write happens before every fetch unit
\* has ended; no unit of the next iteration starts before the
\* reconciliation has finished; a failing unit neither cancels a sibling
\* nor suppresses its result.
C15_FetchThenReconcile ==
    /\ [](sync_pc = "fetching" =>
            /\ store_writes = {}
            /\ \A u \in DOMAIN last_synced :
                   last_synced_db[u] = last_synced[u])
    /\ [](sync_pc = "reconciling" =>
            /\ DOMAIN fetch_result = DOMAIN url_to_block_index
            /\ \A u \in DOMAIN fetch_result : fetch_result[u] # "running")
    /\ [][StagesKeptApart]_vars

\* One unit failed, its sibling's block was reconciled all the same.
C15_Witness ==
    /\ sync_pc = "reconciling"
    /\ \E u, v \in DOMAIN fetch_result :
           /\ fetch_result[u] = "err"
           /\ fetch_result[v] = "sig"
           /\ <<"signature", v>> \in store_writes
           /\ last_synced_db[v] = Some(url_to_block_index[v])
           /\ last_synced_db[u] = last_synced[u]

----------------------------------------------------------------------------
\* C16: the cursor of every source never decreases, None counting as below
\* every Some(i): once Some(i) it is never None again and never smaller.
C16_CursorNeverDecreases ==
    [][\A u \in sources :
          last_synced_db[u] # None =>
              /\ last_synced_db'[u] # None
              /\ Unwrap(last_synced_db'[u]) >= Unwrap(last_synced_db[u])]_vars

\* The driver's pass has raised a cursor that was Some(i) by a call whose
\* start is below it.
C16_Witness ==
    /\ drv_pc = "syncing"
    /\ sync_pc = "reconciling"
    /\ \E u \in DOMAIN last_synced :
           /\ last_synced[u] # None
           /\ start < Unwrap(last_synced[u])
           /\ Unwrap(last_synced_db[u]) > Unwrap(last_synced[u])

----------------------------------------------------------------------------
\* The cursor is None or below the bound of the running call.
StillShort(opt) ==
    opt = None \/ Unwrap(opt) < Unwrap(max_block_height)

\* How many blocks a cursor is short of the bound h; a cursor that is None
\* counts one more than Some(0).
Remaining(opt, h) ==
    IF opt = None THEN h + 1
    ELSE IF Unwrap(opt) >= h THEN 0 ELSE h - Unwrap(opt)

RECURSIVE SumRemaining(_, _, _)
SumRemaining(S, ls, h) ==
    IF S = {} THEN 0
    ELSE LET u == CHOOSE x \in S : TRUE
         IN  Remaining(ls[u], h) + SumRemaining(S \ {u}, ls, h)

\* An iteration of a bounded call that goes round has raised a cursor that
\* was None or below the bound: over the sources it fetched for, the blocks
\* short of the bound are fewer than at its top.
RoundMakesProgress ==
    (sync_pc = "reconciling" /\ sync_pc' = "loop"
     /\ max_block_height # None) =>
        /\ \E u \in DOMAIN last_synced :
               /\ StillShort(last_synced[u])
               /\ last_synced_db[u] # None
               /\ last_synced[u] # None =>
                      Unwrap(last_synced_db[u]) > Unwrap(last_synced[u])
        /\ SumRemaining(DOMAIN last_synced, last_synced_db,
                        Unwrap(max_block_height))
               < SumRemaining(DOMAIN last_synced, last_synced,
                              Unwrap(max_block_height))

\* The call has come back: to its direct caller, or to the driver, which
\* is at its stop check again or has panicked on the error.
CallCameBack ==
    \/ drv_pc = "unspawned" /\ sync_pc = "done"
    \/ drv_pc \in {"check", "panicked_sync"}

\* The driver leaves the call for its stop check, or by the panic of
\* expect() when the call returned an error.
DriverTakesResult ==
    (drv_pc = "syncing" /\ drv_pc' # "syncing") =>
        /\ sync_pc = "done"
        /\ drv_pc' = IF sync_result = "Err" THEN "panicked_sync" ELSE "check"

\* C17 as stated: a bounded call that has ended returned true or false.
C17_AsStated ==
    (sync_pc = "done" /\ max_block_height # None) =>
        sync_result \in {"Ok(true)", "Ok(false)"}

\* C17: a call with a bound ends when every fetch returns, also when start
\* is above the bound: each iteration that goes round raises a cursor that
\* was short of the bound, and the call returns true, false or a store
\* error; the driver then is back at its stop check unless the error made
\* it panic.
C17_BoundedCallEnds ==
    /\ (max_block_height # None) => <>CallCameBack
    /\ [][RoundMakesProgress /\ DriverTakesResult]_vars
    /\ []((sync_pc = "done" /\ max_block_height # None) =>
            sync_result \in {"Ok(true)", "Ok(false)", "Err"})

\* A call whose start is above its bound has ended with true after it
\* moved a cursor from None to start.
C17_Witness ==
    /\ sync_pc = "done"
    /\ max_block_height # None
    /\ start > Unwrap(max_block_height)
    /\ sync_result = "Ok(true)"
    /\ \E u \in sources : last_synced_db[u] = Some(start)

----------------------------------------------------------------------------
\* Every fetch the driver's pass has dispatched is for an index below the
\* ledger count read in this iteration and at most the bound of the pass.
FetchesBelowLedger ==
    (drv_pc = "syncing" /\ sync_pc \in {"fetching", "reconciling"}) =>
        \A u \in DOMAIN url_to_block_index :
            /\ url_to_block_index[u] < ledger_num_blocks
            /\ url_to_block_index[u] <= BoundOfIteration

\* A cursor the driver's pass writes stays at or below the bound of the
\* pass.
CursorWithinBound ==
    drv_pc = "syncing" =>
        \A u \in sources :
            CursorWritten(u) =>
                /\ Unwrap(last_synced_db'[u]) <= BoundOfIteration
                /\ Unwrap(last_synced_db'[u]) <= ledger_num_blocks - 1
                /\ Unwrap(last_synced_db'[u])
                       <= lowest_next_block_to_sync
                              + MAX_BLOCKS_PER_SYNC_ITERATION

\* ledger_num_blocks - 1 is computed only with ledger_num_blocks >= 1.
SubtractionIsSafe ==
    (drv_pc = "decide" /\ drv_pc' = "syncing") => ledger_num_blocks >= 1

\* C18: with the driver as the only caller and a ledger that only grows,
\* no fetch is dispatched for an index at or above the ledger count read
\* in that iteration, no cursor is advanced by the pass beyond
\* min(ledger_num_blocks - 1, lowest + 10), and ledger_num_blocks - 1 is
\* never computed from 0.
C18_DriverStaysBelowLedger ==
    /\ []FetchesBelowLedger
    /\ [](drv_pc = "syncing" =>
            /\ 1 <= ledger_num_blocks
            /\ ledger_num_blocks <= ledger)
    /\ [][CursorWithinBound /\ SubtractionIsSafe
          /\ ledger' >= ledger]_vars

\* One pass has taken the only source from None up to lowest + 10 and
\* returned true there, with the ledger and the archive a block further.
C18_Witness ==
    /\ drv_pc = "syncing"
    /\ sync_pc = "done"
    /\ sync_result = "Ok(true)"
    /\ archive_top = DeepArchiveTop
    /\ lowest_next_block_to_sync = 0
    /\ ledger_num_blocks - 1 > MAX_BLOCKS_PER_SYNC_ITERATION
    /\ \A u \in sources :
           last_synced_db[u] = Some(MAX_BLOCKS_PER_SYNC_ITERATION)
    /\ sources # {}

----------------------------------------------------------------------------
\* C19: with the driver as the only caller and every cursor None at the
\* start, each cursor advances without a gap: its first value is Some(0)
\* and every later write raises it by one, the start argument of the
\* driver's call being 0 whenever a cursor is None.
C19_DriverSyncsFromZero ==
    /\ [](drv_pc = "syncing" =>
            ((\E u \in sources : last_synced_db[u] = None) => start = 0))
    /\ [](sync_pc # "idle" => drv_pc = "syncing")
    /\ [][CursorStepsByOne]_vars

\* A source that was still None gets Some(0) from a pass in which the
\* other source, already at Some(1) or above, is raised by one.
C19_Witness ==
    /\ drv_pc = "syncing"
    /\ sync_pc = "reconciling"
    /\ pending = {}
    /\ \E u, v \in DOMAIN last_synced :
           /\ last_synced[u] = None
           /\ last_synced_db[u] = Some(0)
           /\ last_synced[v] # None
           /\ Unwrap(last_synced[v]) >= 1
           /\ last_synced_db[v] = Some(Unwrap(last_synced[v]) + 1)

----------------------------------------------------------------------------
\* Every cursor is at the last block of the ledger and the flag says so.
CaughtUp ==
    /\ currently_behind = FALSE
    /\ \A u \in sources : last_synced_db[u] = Some(ledger - 1)

\* C20 as stated: with the ledger fixed at N > 0, no store or ledger error,
\* no stop() and every retried fetch of an index below N succeeding at
\* some point, eventually every cursor is Some(N - 1) and is_behind() is
\* false, and it stays so.
C20_AsStated == <>[]CaughtUp

\* The same with at least one source configured.
C20_LiveWithSources == (sources # {}) => <>[]CaughtUp

\* No source is configured: the thread has stored is_behind = true and its
\* sync_blocks call has returned true at once, without a fetch.
C20_Witness ==
    /\ sources = {}
    /\ drv_pc = "syncing"
    /\ sync_pc = "done"
    /\ sync_result = "Ok(true)"
    /\ currently_behind
    /\ lowest_next_block_to_sync = 0
    /\ ledger_num_blocks >= 1

====
